---- MODULE Spec2Model ----
(***************************************************************************)
(* Model of src/funcs.py: the sentence splitter (txt_to_string_list), the  *)
(* three frequency analyzers (phrase_frequency, next_word_frequency,       *)
(* word_frequency_given_word) and the external importance estimator        *)
(* (most_important_words with get_api_key).                                *)
(*                                                                         *)
(* A Python str is a TLA+ string; the content of a file and a reply of the *)
(* service, which the code inspects character by character, are sequences  *)
(* of one-character strings.  A Python dict is the sequence of its         *)
(* <<key, count>> items in insertion order.                                *)
(***************************************************************************)
EXTENDS Integers, Sequences, FiniteSets, TLC

VARIABLES
    text,            \* content of the file given to txt_to_string_list
    delim,           \* the delim argument (a Python list)
    split_pc,        \* "ready" | "returned"
    sentences,       \* value returned by txt_to_string_list / corpus argument
    op,              \* last analyzer called ("none" before any call)
    phrase_len,      \* phrase_len argument of the last phrase_frequency call
    word,            \* word argument of the last next_word / given_word call
    status,          \* "idle" | "returned" | "raised"
    result,          \* value returned by the last analyzer call
    environ,         \* API_KEY in os.environ: whether it is set, and its value
    openai_api_key,  \* the module global openai.api_key
    file_exists,     \* whether open(input_file) succeeds
    file_opened,     \* whether open(input_file) has been executed
    lines,           \* file.readlines() of the input file
    imp_pc,          \* position inside most_important_words
    idx,             \* index (from 1) of the line the loop is at
    requests,        \* prompts sent to the service so far, in order
    replies,         \* raw replies received so far, in order
    important_words, \* the local dict important_words
    err,             \* the exception raised, "" if none
    ret              \* the value returned by most_important_words

splitVars == <<text, delim, split_pc>>
freqVars  == <<op, phrase_len, word, status, result>>
impVars   == <<environ, openai_api_key, file_exists, file_opened, lines,
               imp_pc, idx, requests, replies, important_words, err, ret>>
vars      == <<splitVars, sentences, freqVars, impVars>>

-----------------------------------------------------------------------------
(* Bounds *)

MaxTextLen   == 4
MaxSents     == 2
MaxSentLen   == 3
MaxNegLen    == 2
MaxPhraseLen == 3
MaxLines     == 2

-----------------------------------------------------------------------------
(* Characters and strings *)

\* str.lower() on the characters of the model's alphabet
Lower(c) ==
    CASE c = "A" -> "a"
      [] c = "T" -> "t"
      [] OTHER   -> c

\* the class \w of the re module
WordChars == {"A", "T", "a", "b", "c", "e", "h", "n", "r", "s", "t"}

\* the class \s of the re module, also what str.strip() removes
SpaceChars == {" ", "\n", "\t"}

RECURSIVE JoinChars(_)
\* the str made of a sequence of characters
JoinChars(cs) ==
    IF cs = <<>> THEN "" ELSE Head(cs) \o JoinChars(Tail(cs))

\* file.read().lower()
LowerText(t) == [i \in 1..Len(t) |-> Lower(t[i])]

-----------------------------------------------------------------------------
(* txt_to_string_list *)

RECURSIVE WordEnd(_, _)
\* last index of the maximal run of word characters starting at i (greedy \w+)
WordEnd(t, i) ==
    IF i < Len(t) /\ t[i + 1] \in WordChars THEN WordEnd(t, i + 1) ELSE i

RECURSIVE ScanWordsOnly(_, _, _)
ScanWordsOnly(t, i, acc) ==
    IF i > Len(t) THEN acc
    ELSE IF t[i] \in WordChars
         THEN LET j == WordEnd(t, i)
              IN  ScanWordsOnly(t, j + 1, Append(acc, JoinChars(SubSeq(t, i, j))))
         ELSE ScanWordsOnly(t, i + 1, acc)

RECURSIVE Scan(_, _, _)
\* the left-to-right scan of re.findall: at i, \w+ takes the maximal run of
\* word characters, else [^\w\s] takes one character, else i is skipped
Scan(t, i, acc) ==
    IF i > Len(t) THEN acc
    ELSE IF t[i] \in WordChars
         THEN LET j == WordEnd(t, i)
              IN  Scan(t, j + 1, Append(acc, JoinChars(SubSeq(t, i, j))))
         ELSE IF t[i] \in SpaceChars
              THEN Scan(t, i + 1, acc)
              ELSE Scan(t, i + 1, Append(acc, t[i]))

\* mutant of findall: the pattern \w+ alone, punctuation is lost
findall_words_only(t) == ScanWordsOnly(t, 1, <<>>)

\* re.findall(r"\w+|[^\w\s]", text)
findall(t) == Scan(t, 1, <<>>)

\* token in delim, delim a Python list
InList(x, l) == \E i \in 1..Len(l) : l[i] = x

\* sentences[-1].append(token)
AppendToLast(ss, token) ==
    [ss EXCEPT ![Len(ss)] = Append(ss[Len(ss)], token)]

\* mutant of SplitStep: the new sentence is opened before the delimiter is
\* appended, so the delimiter starts the next sentence
SplitStepOpenFirst(ss, token, d) ==
    IF InList(token, d)
    THEN AppendToLast(Append(ss, <<>>), token)
    ELSE AppendToLast(ss, token)

\* mutant of SplitStep: the sentence is closed without opening a new one
SplitStepNoOpen(ss, token, d) ==
    AppendToLast(ss, token)

\* one iteration of the loop over tokens
SplitStep(ss, token, d) ==
    IF InList(token, d)
    THEN Append(AppendToLast(ss, token), <<>>)
    ELSE AppendToLast(ss, token)

RECURSIVE SplitLoop(_, _, _)
\* the loop over tokens, from the sentences built so far
SplitLoop(tokens, ss, d) ==
    IF tokens = <<>> THEN ss
    ELSE SplitLoop(Tail(tokens), SplitStep(ss, Head(tokens), d), d)

\* the whole function, from the content of the file
txt_to_string_list(t, d) ==
    SplitLoop(findall(LowerText(t)), << <<>> >>, d)

-----------------------------------------------------------------------------
(* Python dict, slice, join, range, sorted *)

\* key in d
HasKey(d, k) == \E i \in 1..Len(d) : d[i][1] = k

\* if k in d: d[k] += 1  else: d[k] = 1   (a new key goes last)
DictIncr(d, k) ==
    IF HasKey(d, k)
    THEN [i \in 1..Len(d) |-> IF d[i][1] = k THEN <<k, d[i][2] + 1>> ELSE d[i]]
    ELSE Append(d, <<k, 1>>)

\* a slice index: a negative one counts from the end, then clamped to 0..len
SliceIndex(n, len) ==
    LET m == IF n < 0 THEN n + len ELSE n
    IN  IF m < 0 THEN 0 ELSE IF m > len THEN len ELSE m

\* s[start : stop], indices from 0
Slice(s, start, stop) ==
    LET a == SliceIndex(start, Len(s))
        b == SliceIndex(stop, Len(s))
    IN  IF a < b THEN SubSeq(s, a + 1, b) ELSE <<>>

RECURSIVE Join(_)
\* " ".join(ws)
Join(ws) ==
    IF ws = <<>> THEN ""
    ELSE IF Len(ws) = 1 THEN ws[1]
    ELSE ws[1] \o " " \o Join(Tail(ws))

\* mutant of InsertSorted: an item goes before the items of equal count
InsertSortedUnstable(acc, x) ==
    LET n == Cardinality({i \in 1..Len(acc) : acc[i][2] > x[2]})
    IN  SubSeq(acc, 1, n) \o <<x>> \o SubSeq(acc, n + 1, Len(acc))

\* x placed in acc (sorted by descending count) after every item whose
\* count is >= its own: the sort is stable, also with reverse=True
InsertSorted(acc, x) ==
    LET n == Cardinality({i \in 1..Len(acc) : acc[i][2] >= x[2]})
    IN  SubSeq(acc, 1, n) \o <<x>> \o SubSeq(acc, n + 1, Len(acc))

RECURSIVE SortedFrom(_, _)
SortedFrom(items, acc) ==
    IF items = <<>> THEN acc
    ELSE SortedFrom(Tail(items), InsertSorted(acc, Head(items)))

\* sorted(d.items(), key=lambda x: x[1], reverse=True)
SortedByCount(d) == SortedFrom(d, <<>>)

-----------------------------------------------------------------------------
(* phrase_frequency *)

RECURSIVE PhraseWindows(_, _, _, _, _)
\* for i in range(n): the body at i, then the rest
PhraseWindows(sentence, len, i, n, d) ==
    IF i >= n THEN d
    ELSE PhraseWindows(sentence, len, i + 1, n,
                       DictIncr(d, Join(Slice(sentence, i, i + len))))

RECURSIVE PhraseLoop(_, _, _)
\* for sentence in sentences
PhraseLoop(ss, len, d) ==
    IF ss = <<>> THEN d
    ELSE LET sentence == Head(ss)
         IN  IF Len(sentence) < len
             THEN PhraseLoop(Tail(ss), len, d)
             ELSE PhraseLoop(Tail(ss), len,
                      PhraseWindows(sentence, len, 0, Len(sentence) - len + 1, d))

RECURSIVE Flatten(_)
Flatten(ss) == IF ss = <<>> THEN <<>> ELSE Head(ss) \o Flatten(Tail(ss))

\* mutant of phrase_frequency: the windows slide over the whole corpus
phrase_frequency_flat(ss, len) ==
    SortedByCount(PhraseLoop(<<Flatten(ss)>>, len, <<>>))

\* the whole function
phrase_frequency(ss, len) ==
    SortedByCount(PhraseLoop(ss, len, <<>>))

-----------------------------------------------------------------------------
(* next_word_frequency *)

RECURSIVE NextWordPairs(_, _, _, _)
\* for i in range(len(sentence) - 1), i from 0
NextWordPairs(sentence, w, i, d) ==
    IF i >= Len(sentence) - 1 THEN d
    ELSE IF sentence[i + 1] = w
         THEN NextWordPairs(sentence, w, i + 1, DictIncr(d, sentence[i + 2]))
         ELSE NextWordPairs(sentence, w, i + 1, d)

RECURSIVE NextWordLoop(_, _, _)
NextWordLoop(ss, w, d) ==
    IF ss = <<>> THEN d
    ELSE NextWordLoop(Tail(ss), w, NextWordPairs(Head(ss), w, 0, d))

\* mutant of next_word_frequency: the pairs are taken over the whole corpus
next_word_frequency_flat(ss, w) ==
    SortedByCount(NextWordLoop(<<Flatten(ss)>>, w, <<>>))

\* the whole function
next_word_frequency(ss, w) ==
    SortedByCount(NextWordLoop(ss, w, <<>>))

-----------------------------------------------------------------------------
(* word_frequency_given_word *)

RECURSIVE CountWords(_, _)
\* for w in sentence
CountWords(sentence, d) ==
    IF sentence = <<>> THEN d
    ELSE CountWords(Tail(sentence), DictIncr(d, Head(sentence)))

RECURSIVE GivenWordLoopPerHit(_, _, _)
GivenWordLoopPerHit(ss, w, d) ==
    IF ss = <<>> THEN d
    ELSE LET hits == Cardinality({i \in 1..Len(Head(ss)) : Head(ss)[i] = w})
             once == CountWords(Head(ss), d)
         IN  GivenWordLoopPerHit(Tail(ss), w,
                 IF hits = 0 THEN d
                 ELSE IF hits = 1 THEN once
                 ELSE CountWords(Head(ss), once))

RECURSIVE GivenWordLoop(_, _, _)
\* for sentence in sentences: if word in sentence
GivenWordLoop(ss, w, d) ==
    IF ss = <<>> THEN d
    ELSE IF InList(w, Head(ss))
         THEN GivenWordLoop(Tail(ss), w, CountWords(Head(ss), d))
         ELSE GivenWordLoop(Tail(ss), w, d)

\* mutant of word_frequency_given_word: a sentence in which the word occurs
\* more than once is counted again
word_frequency_given_word_per_hit(ss, w) ==
    SortedByCount(GivenWordLoopPerHit(ss, w, <<>>))

\* the whole function
word_frequency_given_word(ss, w) ==
    SortedByCount(GivenWordLoop(ss, w, <<>>))

-----------------------------------------------------------------------------
(* get_api_key, most_important_words *)

\* mutant of get_api_key: only an unset variable is refused ("is None")
get_api_key_unset_only(env) ==
    IF ~env.set
    THEN [raised |-> TRUE, value |-> ""]
    ELSE [raised |-> FALSE, value |-> env.value]

\* os.getenv gives None for an unset variable; "not api_key" holds of None
\* and of the empty string, and then ValueError is raised
get_api_key(env) ==
    IF ~env.set \/ env.value = ""
    THEN [raised |-> TRUE, value |-> ""]
    ELSE [raised |-> FALSE, value |-> env.value]

\* the content of the one message of a request
Prompt(line) ==
    "Identify the most important word in the following sentence: " \o line

RECURSIVE LStrip(_)
LStrip(cs) ==
    IF cs /= <<>> /\ Head(cs) \in SpaceChars THEN LStrip(Tail(cs)) ELSE cs

RECURSIVE RStrip(_)
RStrip(cs) ==
    IF cs /= <<>> /\ cs[Len(cs)] \in SpaceChars
    THEN RStrip(SubSeq(cs, 1, Len(cs) - 1))
    ELSE cs

\* response["choices"][0]["message"]["content"].strip()
Strip(cs) == JoinChars(RStrip(LStrip(cs)))

\* the function ends without a return statement: the call evaluates to None
NoneValue == [is_none |-> TRUE, items |-> <<>>]

-----------------------------------------------------------------------------
(* Inputs *)

Words == {"a", "b"}

SentencesUpTo(n) == UNION {[1..k -> Words] : k \in 0..n}

Corpora == UNION {[1..k -> SentencesUpTo(MaxSentLen)] : k \in 0..MaxSents}

PhraseLens == (0 - MaxNegLen)..MaxPhraseLen

TextChars == {"A", "a", ".", "!", ",", " "}

Texts == UNION {[1..k -> TextChars] : k \in 0..MaxTextLen}

ExampleText ==
    <<"T", "h", "e", " ", "c", "a", "t", " ", "s", "a", "t", ".", " ",
      "T", "h", "e", " ", "c", "a", "t", " ", "r", "a", "n", "!">>

DefaultDelim == <<".", "?", "!", ";">>

DelimChoices == {DefaultDelim, <<".", "!">>, <<"a">>}

Environs ==
    {[set |-> FALSE, value |-> ""], [set |-> TRUE, value |-> ""],
     [set |-> TRUE, value |-> "sk-1"]}

LineChoices == {"the cat sat.\n", "a dog ran!\n"}

Files == UNION {[1..k -> LineChoices] : k \in 0..MaxLines}

ReplyChoices ==
    {<<"c", "a", "t">>, <<" ", "c", "a", "t", "\n">>, <<"r", "a", "n">>}

-----------------------------------------------------------------------------
(* States before any call *)

SplitIdle ==
    /\ text = <<>>
    /\ delim = DefaultDelim
    /\ split_pc = "off"

FreqIdle ==
    /\ op = "none"
    /\ phrase_len = 0
    /\ word = ""
    /\ status = "idle"
    /\ result = <<>>

ImpIdle ==
    /\ environ = [set |-> FALSE, value |-> ""]
    /\ openai_api_key = [set |-> FALSE, value |-> ""]
    /\ file_exists = FALSE
    /\ file_opened = FALSE
    /\ lines = <<>>
    /\ imp_pc = "off"
    /\ idx = 0
    /\ requests = <<>>
    /\ replies = <<>>
    /\ important_words = <<>>
    /\ err = ""
    /\ ret = [is_none |-> FALSE, items |-> <<>>]

-----------------------------------------------------------------------------
(* The sentence splitter, called on the content of a file *)

InitSplit ==
    /\ text \in Texts \cup {ExampleText}
    /\ delim \in DelimChoices
    /\ split_pc = "ready"
    /\ sentences = <<>>
    /\ FreqIdle
    /\ ImpIdle

TxtToStringList ==
    /\ split_pc = "ready"
    /\ sentences' = txt_to_string_list(text, delim)
    /\ split_pc' = "returned"
    /\ UNCHANGED <<text, delim, freqVars, impVars>>

NextSplit == TxtToStringList

SpecSplit == InitSplit /\ [][NextSplit]_vars

-----------------------------------------------------------------------------
(* The analyzers: one call of one analyzer on a corpus.  A call keeps no  *)
(* state, so a further call is another behaviour from another Init.      *)

InitFreq ==
    /\ sentences \in Corpora
    /\ SplitIdle
    /\ FreqIdle
    /\ ImpIdle

PhraseFrequency ==
    \E n \in PhraseLens :
        /\ status = "idle"
        /\ op' = "phrase_frequency"
        /\ phrase_len' = n
        /\ word' = ""
        /\ result' = phrase_frequency(sentences, n)
        /\ status' = "returned"
        /\ UNCHANGED <<splitVars, sentences, impVars>>

NextWordFrequency ==
    \E w \in Words :
        /\ status = "idle"
        /\ op' = "next_word_frequency"
        /\ phrase_len' = 0
        /\ word' = w
        /\ result' = next_word_frequency(sentences, w)
        /\ status' = "returned"
        /\ UNCHANGED <<splitVars, sentences, impVars>>

WordFrequencyGivenWord ==
    \E w \in Words :
        /\ status = "idle"
        /\ op' = "word_frequency_given_word"
        /\ phrase_len' = 0
        /\ word' = w
        /\ result' = word_frequency_given_word(sentences, w)
        /\ status' = "returned"
        /\ UNCHANGED <<splitVars, sentences, impVars>>

NextFreq == PhraseFrequency \/ NextWordFrequency \/ WordFrequencyGivenWord

SpecFreq == InitFreq /\ [][NextFreq]_vars

-----------------------------------------------------------------------------
(* most_important_words, statement by statement *)

InitImp ==
    /\ sentences = <<>>
    /\ SplitIdle
    /\ FreqIdle
    /\ environ \in Environs
    /\ openai_api_key = [set |-> FALSE, value |-> ""]
    /\ file_exists \in BOOLEAN
    /\ file_opened = FALSE
    /\ lines \in Files
    /\ imp_pc = "start"
    /\ idx = 0
    /\ requests = <<>>
    /\ replies = <<>>
    /\ important_words = <<>>
    /\ err = ""
    /\ ret = [is_none |-> FALSE, items |-> <<>>]

\* openai.api_key = get_api_key()
GetApiKey ==
    /\ imp_pc = "start"
    /\ LET r == get_api_key(environ)
       IN  IF r.raised
           THEN /\ imp_pc' = "raised"
                /\ err' = "ValueError"
                /\ UNCHANGED openai_api_key
           ELSE /\ imp_pc' = "open"
                /\ openai_api_key' = [set |-> TRUE, value |-> r.value]
                /\ UNCHANGED err
    /\ UNCHANGED <<splitVars, sentences, freqVars, environ, file_exists,
                   file_opened, lines, idx, requests, replies,
                   important_words, ret>>

\* with open(input_file, ...) as file: text = file.readlines()
OpenFile ==
    /\ imp_pc = "open"
    /\ file_opened' = TRUE
    /\ IF file_exists
       THEN /\ imp_pc' = "loop"
            /\ idx' = 1
            /\ UNCHANGED err
       ELSE /\ imp_pc' = "raised"
            /\ err' = "FileNotFoundError"
            /\ UNCHANGED idx
    /\ UNCHANGED <<splitVars, sentences, freqVars, environ, openai_api_key,
                   file_exists, lines, requests, replies, important_words, ret>>

\* one iteration of the loop: the request is answered
CreateReplies ==
    /\ imp_pc = "loop"
    /\ idx <= Len(lines)
    /\ \E reply \in ReplyChoices :
          /\ requests' = Append(requests, Prompt(lines[idx]))
          /\ replies' = Append(replies, reply)
          /\ important_words' = DictIncr(important_words, Strip(reply))
    /\ idx' = idx + 1
    /\ UNCHANGED <<splitVars, sentences, freqVars, environ, openai_api_key,
                   file_exists, file_opened, lines, imp_pc, err, ret>>

\* one iteration of the loop: the request raises, nothing catches it
CreateRaises ==
    /\ imp_pc = "loop"
    /\ idx <= Len(lines)
    /\ requests' = Append(requests, Prompt(lines[idx]))
    /\ imp_pc' = "raised"
    /\ err' = "ServiceError"
    /\ UNCHANGED <<splitVars, sentences, freqVars, environ, openai_api_key,
                   file_exists, file_opened, lines, idx, replies,
                   important_words, ret>>

\* the loop is over and so is the function body
FallOffEnd ==
    /\ imp_pc = "loop"
    /\ idx > Len(lines)
    /\ imp_pc' = "done"
    /\ ret' = NoneValue
    /\ UNCHANGED <<splitVars, sentences, freqVars, environ, openai_api_key,
                   file_exists, file_opened, lines, idx, requests, replies,
                   important_words, err>>

NextImp ==
    GetApiKey \/ OpenFile \/ CreateReplies \/ CreateRaises \/ FallOffEnd

SpecImp == InitImp /\ [][NextImp]_vars

-----------------------------------------------------------------------------
(* Vocabulary of the claims *)

RECURSIVE ConcatStrs(_)
\* the tokens written one after the other, nothing between them
ConcatStrs(ws) ==
    IF ws = <<>> THEN "" ELSE Head(ws) \o ConcatStrs(Tail(ws))

IsSpace(c) == c \in SpaceChars

NotSpace(c) == ~IsSpace(c)

Max(a, b) == IF a >= b THEN a ELSE b

RECURSIVE SumCounts(_)
SumCounts(items) ==
    IF items = <<>> THEN 0 ELSE Head(items)[2] + SumCounts(Tail(items))

RECURSIVE TotalWindows(_, _)
\* the sum over the sentences of max(0, len(sentence) - n + 1)
TotalWindows(ss, n) ==
    IF ss = <<>> THEN 0
    ELSE Max(0, Len(Head(ss)) - n + 1) + TotalWindows(Tail(ss), n)

\* k is n consecutive tokens of one sentence of ss, joined by single spaces
IsWindowOfOneSentence(k, ss, n) ==
    \E j \in 1..Len(ss) :
        \E i \in 1..(Len(ss[j]) - n + 1) :
            k = Join(SubSeq(ss[j], i, i + n - 1))

\* the count the table gives to key k, 0 when k is not a key
CountOf(items, k) ==
    SumCounts(SelectSeq(items, LAMBDA it : it[1] = k))

KeysOf(items) == {items[i][1] : i \in 1..Len(items)}

UniqueKeys(items) ==
    \A i, j \in 1..Len(items) : i /= j => items[i][1] /= items[j][1]

\* positions (sentence, index) where the target is followed, inside the
\* sentence, by w
FollowedBy(ss, target, w) ==
    {p \in (1..Len(ss)) \X (1..MaxSentLen + 1) :
        /\ p[2] + 1 <= Len(ss[p[1]])
        /\ ss[p[1]][p[2]] = target
        /\ ss[p[1]][p[2] + 1] = w}

\* positions (sentence, index) of w in the sentences that contain the target
OccurrencesGiven(ss, target, w) ==
    {p \in (1..Len(ss)) \X (1..MaxSentLen + 1) :
        /\ p[2] <= Len(ss[p[1]])
        /\ ss[p[1]][p[2]] = w
        /\ \E i \in 1..Len(ss[p[1]]) : ss[p[1]][i] = target}

\* whether the target occurs somewhere as a token that is not the last one
\* of its sentence
OccursNonFinal(ss, target) ==
    \E j \in 1..Len(ss) : \E i \in 1..(Len(ss[j]) - 1) : ss[j][i] = target

OccursAnywhere(ss, target) ==
    \E j \in 1..Len(ss) : \E i \in 1..Len(ss[j]) : ss[j][i] = target

\* the keys in the order in which the scan of each analyzer meets them
PhraseKeysOf(sentence, n) ==
    IF Len(sentence) < n THEN <<>>
    ELSE [i \in 1..(Len(sentence) - n + 1) |->
             Join(Slice(sentence, i - 1, i - 1 + n))]

NextKeysOf(sentence, target) ==
    LET at == SelectSeq([i \in 1..Max(0, Len(sentence) - 1) |-> i],
                        LAMBDA i : sentence[i] = target)
    IN  [i \in 1..Len(at) |-> sentence[at[i] + 1]]

GivenKeysOf(sentence, target) ==
    IF \E i \in 1..Len(sentence) : sentence[i] = target
    THEN sentence ELSE <<>>

RECURSIVE KeysSeen(_)
KeysSeen(ss) ==
    IF ss = <<>> THEN <<>>
    ELSE (CASE op = "phrase_frequency" -> PhraseKeysOf(Head(ss), phrase_len)
            [] op = "next_word_frequency" -> NextKeysOf(Head(ss), word)
            [] OTHER -> GivenKeysOf(Head(ss), word))
         \o KeysSeen(Tail(ss))

\* the index at which key k is first met
FirstSeen(k, seen) ==
    CHOOSE i \in 1..Len(seen) :
        seen[i] = k /\ \A j \in 1..(i - 1) : seen[j] /= k

Returned == op /= "none" /\ status = "returned"

Sentence1 == <<"the", "cat", "sat", ".">>

Sentence2 == <<"the", "cat", "ran", "!">>

ExampleCall ==
    /\ split_pc = "returned"
    /\ text = ExampleText
    /\ delim = <<".", "!">>

KeyMissing == ~environ.set \/ environ.value = ""

-----------------------------------------------------------------------------
(* Claims *)

\* C1 (as stated): for "The cat sat. The cat ran!" and the delimiters "." and
\* "!", txt_to_string_list returns exactly the two sentences the cat sat .
\* and the cat ran ! and no further sentence.
C1_ExactlyTwoSentences ==
    ExampleCall => sentences = <<Sentence1, Sentence2>>

\* C1 (amended): for that text and those delimiters txt_to_string_list
\* returns three sentences: the cat sat . then the cat ran ! then the empty
\* sentence opened by the closing "!".
C1_TwoSentencesThenEmpty ==
    ExampleCall => sentences = <<Sentence1, Sentence2, <<>> >>

C1_Witness == ExampleCall /\ Len(sentences) = 3

\* C3: in the result of txt_to_string_list every sentence but the last is
\* not empty and its last token is one of the delimiters.
C3_DelimiterClosure ==
    split_pc = "returned" =>
        \A i \in 1..(Len(sentences) - 1) :
            /\ sentences[i] /= <<>>
            /\ InList(sentences[i][Len(sentences[i])], delim)

C3_Witness ==
    /\ split_pc = "returned"
    /\ Len(sentences) >= 3
    /\ Len(sentences[1]) >= 2

\* C4 (as stated): the tokens of all the sentences, written one after the
\* other, are exactly the characters of the text that are not whitespace.
C4_TokensRebuildText ==
    split_pc = "returned" =>
        ConcatStrs(Flatten(sentences)) = JoinChars(SelectSeq(text, NotSpace))

\* C4 (amended): the tokens of all the sentences, written one after the
\* other, are exactly the characters of the lower-cased text that are not
\* whitespace.
C4_TokensRebuildLoweredText ==
    split_pc = "returned" =>
        ConcatStrs(Flatten(sentences)) =
            JoinChars(SelectSeq([i \in 1..Len(text) |-> Lower(text[i])], NotSpace))

C4_Witness ==
    /\ split_pc = "returned"
    /\ \E i, j, k \in 1..Len(text) :
          text[i] = "A" /\ text[j] = " " /\ text[k] \in {".", "!", ","}

\* C2: phrase_frequency with phrase_len < 1 fails with InvalidArgument and
\* returns no frequency table.
C2_InvalidPhraseLenRejected ==
    (op = "phrase_frequency" /\ phrase_len < 1) =>
        status = "raised" /\ result = <<>>

\* C5: for phrase_len >= 1 the counts returned by phrase_frequency add up to
\* the sum over the sentences of max(0, len(sentence) - phrase_len + 1), and
\* every counted phrase is phrase_len consecutive tokens of one sentence.
C5_CountsAreWindows ==
    (Returned /\ op = "phrase_frequency" /\ phrase_len >= 1) =>
        /\ SumCounts(result) = TotalWindows(sentences, phrase_len)
        /\ \A i \in 1..Len(result) :
              IsWindowOfOneSentence(result[i][1], sentences, phrase_len)

C5_Witness ==
    /\ Returned /\ op = "phrase_frequency" /\ phrase_len = 2
    /\ Len(sentences) = 2
    /\ Len(sentences[1]) = 2
    /\ Len(sentences[2]) = 1
    /\ result /= <<>>

\* C6: next_word_frequency gives every word w the number of positions,
\* inside one sentence, where the target is followed by w; a target that
\* ends a sentence adds nothing, and the result is empty when the target
\* never occurs as a token that is not the last of its sentence.
C6_NextWordCounts ==
    (Returned /\ op = "next_word_frequency") =>
        /\ \A w \in Words :
              CountOf(result, w) = Cardinality(FollowedBy(sentences, word, w))
        /\ \A i \in 1..Len(result) : result[i][1] \in Words /\ result[i][2] >= 1
        /\ UniqueKeys(result)
        /\ (~OccursNonFinal(sentences, word) => result = <<>>)

C6_Witness ==
    /\ Returned /\ op = "next_word_frequency"
    /\ Len(sentences) = 2
    /\ Len(sentences[1]) = 2
    /\ sentences[1][2] = word
    /\ sentences[2] /= <<>>
    /\ result /= <<>>

\* C7: word_frequency_given_word gives every word w the number of its
\* occurrences in the sentences that contain the target; such a sentence is
\* counted once, the other sentences add nothing, and the result is empty
\* when the target is not in the corpus.
C7_GivenWordCounts ==
    (Returned /\ op = "word_frequency_given_word") =>
        /\ \A w \in Words :
              CountOf(result, w) =
                  Cardinality(OccurrencesGiven(sentences, word, w))
        /\ \A i \in 1..Len(result) : result[i][1] \in Words /\ result[i][2] >= 1
        /\ UniqueKeys(result)
        /\ (~OccursAnywhere(sentences, word) => result = <<>>)

C7_Witness ==
    /\ Returned /\ op = "word_frequency_given_word"
    /\ Len(sentences) = 2
    /\ sentences[1] = <<word, word>>
    /\ sentences[2] /= <<>>
    /\ ~InList(word, sentences[2])

\* C8: the table every analyzer returns has counts that never increase, no
\* key twice, and keys of equal count in the order in which the scan first
\* met them.
C8_RankedFirstSeen ==
    Returned =>
        LET seen == KeysSeen(sentences)
        IN  /\ KeysOf(result) = {seen[i] : i \in 1..Len(seen)}
            /\ \A i, j \in 1..Len(result) :
                  i < j =>
                     /\ result[i][2] >= result[j][2]
                     /\ result[i][1] /= result[j][1]
                     /\ (result[i][2] = result[j][2] =>
                            FirstSeen(result[i][1], seen)
                                < FirstSeen(result[j][1], seen))

C8_Witness ==
    /\ Returned
    /\ Len(result) >= 3
    /\ result[1][2] > result[2][2]
    /\ result[2][2] = result[3][2]
    /\ LET seen == KeysSeen(sentences)
       IN  FirstSeen(result[1][1], seen) > FirstSeen(result[2][1], seen)

\* C9: with API_KEY unset or empty most_important_words raises ValueError
\* with the file not opened and no request sent; whenever the file has been
\* opened or a request sent, the key was found and stored.
C9_KeyBeforeAnything ==
    /\ (KeyMissing /\ imp_pc \notin {"off", "start"}) =>
          /\ imp_pc = "raised"
          /\ err = "ValueError"
          /\ ~file_opened
          /\ requests = <<>>
    /\ (file_opened \/ requests /= <<>>) =>
          /\ ~KeyMissing
          /\ openai_api_key = [set |-> TRUE, value |-> environ.value]

C9_Witness ==
    /\ environ = [set |-> TRUE, value |-> ""]
    /\ imp_pc = "raised"
    /\ file_exists
    /\ lines /= <<>>

\* C10: with the key present and every request answered,
\* most_important_words sends one request per line, in the order of the
\* lines, and returns a list of (word, count) in which the count of a word
\* is the number of lines whose reply, stripped, was that word.
C10_ReturnsCounts ==
    imp_pc = "done" =>
        /\ requests = [i \in 1..Len(lines) |-> Prompt(lines[i])]
        /\ ~ret.is_none
        /\ UniqueKeys(ret.items)
        /\ \A i \in 1..Len(replies) :
              CountOf(ret.items, Strip(replies[i])) =
                  Cardinality({j \in 1..Len(replies) :
                                  Strip(replies[j]) = Strip(replies[i])})
        /\ SumCounts(ret.items) = Len(lines)

====
